---- MODULE Spec2Model ----
(***************************************************************************)
(* CORD-19 Data Explorer (streamlit_app.py).                               *)
(*                                                                         *)
(* The script is a Streamlit page: a memoized loader (load_data), a year   *)
(* range slider, a boolean-mask filter, and a title word-frequency         *)
(* analysis (get_word_frequency, Counter.most_common).  The whole script   *)
(* body runs top to bottom on every interaction.                           *)
(*                                                                         *)
(* Four specifications share the definitions below:                        *)
(*   SpecTok   the regular expression of get_word_frequency on one title   *)
(*   SpecFreq  get_word_frequency / most_common on a column of titles      *)
(*   SpecLoad  the body of load_data on one CSV file and one sample size   *)
(*   Spec      a session: files on disk, the cache, script executions      *)
(***************************************************************************)
EXTENDS Integers, Sequences, FiniteSets, TLC

VARIABLES
    title, words,                                 \* SpecTok
    titles, word_freq, common_words, chart_words, \* SpecFreq
    csv, sample_size, loaded,                     \* SpecLoad
    files, cache, calls, df, year_range, filtered_df, view  \* Spec

tokVars  == <<title, words>>
freqVars == <<titles, word_freq, common_words, chart_words>>
loadVars == <<csv, sample_size, loaded>>
appVars  == <<files, cache, calls, df, year_range, filtered_df, view>>
vars     == <<tokVars, freqVars, loadVars, appVars>>

(***************************************************************************)
(* Bounds of the model.                                                    *)
(***************************************************************************)
MaxLen    == 7   \* characters of a title in SpecTok
MaxTitles == 3   \* titles of a column in SpecFreq
MaxTopN   == 3   \* largest n tried for most_common(n) beyond the script's 20
MaxRows   == 3   \* rows of a CSV file in SpecLoad
MaxCap    == 3   \* largest sample_size in SpecLoad
MaxCalls  == 3   \* script executions of a session in Spec

(***************************************************************************)
(* Characters.  A string is a sequence of one-character strings.           *)
(***************************************************************************)
UpperCase == <<"A","B","C","D","E","F","G","H","I","J","K","L","M",
               "N","O","P","Q","R","S","T","U","V","W","X","Y","Z">>
LowerCase == <<"a","b","c","d","e","f","g","h","i","j","k","l","m",
               "n","o","p","q","r","s","t","u","v","w","x","y","z">>
Digits    == {"0","1","2","3","4","5","6","7","8","9"}

Range(f) == {f[i] : i \in DOMAIN f}

UpperLetters == Range(UpperCase)
AsciiLetters == Range(UpperCase) \cup Range(LowerCase)
WordChars    == AsciiLetters \cup Digits \cup {"_"}

\* [a-zA-Z]
IsAsciiLetter(c) == c \in AsciiLetters

\* \w of a str pattern: alphanumerics and the underscore
IsWordChar(c) == c \in WordChars

\* str.lower() on one character
LowerChar(c) ==
    IF c \in UpperLetters
    THEN LowerCase[CHOOSE i \in DOMAIN UpperCase : UpperCase[i] = c]
    ELSE c

\* str.lower()
Lower(s) == [i \in DOMAIN s |-> LowerChar(s[i])]

\* s[i:j] with 1-based i and exclusive j
Slice(s, i, j) == [k \in 1..(j - i) |-> s[i + k - 1]]

Max(S) == CHOOSE x \in S : \A y \in S : y <= x
Min(S) == CHOOSE x \in S : \A y \in S : x <= y

(***************************************************************************)
(* re.findall(r'\b[a-zA-Z]{3,}\b', s)                                      *)
(***************************************************************************)
MinWordLen == 3

\* the pattern written without its \b anchors: every position qualifies
NoWordBoundary(s, i) == TRUE

\* \b before position i (1..Len(s)+1): exactly one side is a word character
WordBoundary(s, i) ==
    LET before == i > 1 /\ IsWordChar(s[i - 1])
        after  == i <= Len(s) /\ IsWordChar(s[i])
    IN  before # after

\* the ends j (exclusive) at which the pattern can match from position i
MatchEnds(s, i) ==
    IF ~WordBoundary(s, i) THEN {}
    ELSE {j \in (i + MinWordLen)..(Len(s) + 1) :
            /\ \A k \in i..(j - 1) : IsAsciiLetter(s[k])
            /\ WordBoundary(s, j)}

\* leftmost match, greedy quantifier, scan resumes after the match
RECURSIVE FindAllFrom(_, _)
FindAllFrom(s, i) ==
    IF i > Len(s) THEN <<>>
    ELSE LET ends == MatchEnds(s, i)
         IN  IF ends = {} THEN FindAllFrom(s, i + 1)
             ELSE <<Slice(s, i, Max(ends))>> \o FindAllFrom(s, Max(ends))

FindAll(s) == FindAllFrom(s, 1)

stop_words == {
    <<"t","h","e">>, <<"a","n","d">>, <<"f","o","r">>, <<"a","r","e">>,
    <<"w","i","t","h">>, <<"t","h","i","s">>, <<"t","h","a","t">>,
    <<"f","r","o","m">>, <<"t","h","e","y">>, <<"b","e","e","n">>,
    <<"h","a","v","e">>, <<"w","e","r","e">>, <<"s","a","i","d">>,
    <<"e","a","c","h">>, <<"w","h","i","c","h">>, <<"t","h","e","i","r">>,
    <<"t","i","m","e">>, <<"w","i","l","l">>, <<"a","b","o","u","t">>,
    <<"c","a","n">>, <<"m","a","y">>, <<"u","s","e">>, <<"h","e","r">>,
    <<"h","i","m">>, <<"h","i","s">>, <<"s","h","e">>, <<"w","a","s">>,
    <<"o","n","e">>, <<"o","u","r">>, <<"h","a","d">>, <<"b","u","t">>,
    <<"n","o","t">>, <<"w","h","a","t">>, <<"a","l","l">>, <<"a","n","y">>,
    <<"y","o","u","r">>, <<"h","o","w">>, <<"d","i","d">>, <<"i","t","s">>}

\* [w for w in words if w not in stop_words]
NotStopWord(w) == w \notin stop_words

\* the body of the loop of get_word_frequency for one title
TitleWords(t) == SelectSeq(FindAll(Lower(t)), NotStopWord)

(***************************************************************************)
(* collections.Counter: a dict, so its keys keep insertion order.  A       *)
(* Counter is the sequence of its items [word, count] in that order.       *)
(***************************************************************************)
Keys(c) == [i \in DOMAIN c |-> c[i].word]

\* self[elem] = self.get(elem, 0) + 1
CounterAdd(c, w) ==
    IF \E i \in DOMAIN c : c[i].word = w
    THEN [i \in DOMAIN c |->
            IF c[i].word = w THEN [c[i] EXCEPT !.count = @ + 1] ELSE c[i]]
    ELSE Append(c, [word |-> w, count |-> 1])

\* Counter(iterable)
RECURSIVE CounterOf(_)
CounterOf(ws) ==
    IF ws = <<>> THEN <<>>
    ELSE CounterAdd(CounterOf(SubSeq(ws, 1, Len(ws) - 1)), ws[Len(ws)])

NaN == <<"NaN">>   \* a missing cell

\* titles.dropna()
DropNaTitles(ts) == SelectSeq(ts, LAMBDA t : t # NaN)

\* all_words after the loop over titles.dropna()
RECURSIVE AllWords(_)
AllWords(ts) ==
    IF ts = <<>> THEN <<>>
    ELSE TitleWords(Head(ts)) \o AllWords(Tail(ts))

get_word_frequency(ts) == CounterOf(AllWords(DropNaTitles(ts)))

\* an unstable descending sort: an item goes before the items of equal count
InsertBeforeTies(sorted, x) ==
    LET k == Cardinality({i \in DOMAIN sorted : sorted[i].count > x.count})
    IN  SubSeq(sorted, 1, k) \o <<x>> \o SubSeq(sorted, k + 1, Len(sorted))

\* sorted(items, key=itemgetter(1), reverse=True) is stable: an item goes
\* after every item whose count is at least its own
InsertByCount(sorted, x) ==
    LET k == Cardinality({i \in DOMAIN sorted : sorted[i].count >= x.count})
    IN  SubSeq(sorted, 1, k) \o <<x>> \o SubSeq(sorted, k + 1, Len(sorted))

RECURSIVE SortedByCount(_)
SortedByCount(c) ==
    IF c = <<>> THEN <<>>
    ELSE InsertByCount(SortedByCount(SubSeq(c, 1, Len(c) - 1)), c[Len(c)])

\* seq[:n]
Take(s, n) == SubSeq(s, 1, IF n < Len(s) THEN n ELSE Len(s))

\* the first n items in insertion order, then sorted
TruncateThenSort(c, n) == SortedByCount(Take(c, n))

\* Counter.most_common(n) = heapq.nlargest(n, items, key=count)
most_common(c, n) == Take(SortedByCount(c), n)

TopWords   == 20   \* word_freq.most_common(20)
ChartWords == 15   \* list(common_words.keys())[:15]

\* dict(word_freq.most_common(20)): the items are distinct keys, order kept
CommonWords(c) == most_common(c, TopWords)

\* the bars of the col3 chart
ChartItems(cw) == Take(cw, ChartWords)

(***************************************************************************)
(* load_data.  A raw CSV row is [title, publish_time, journal, authors];   *)
(* a cell is NaN or a value.  publish_time is NaN, <<"text">> (a string    *)
(* pd.to_datetime cannot parse) or <<"date", y>> (a date string of year y).*)
(* read_csv labels the rows 0, 1, 2, ... (RangeIndex); the label stays     *)
(* with the row through every later step.                                  *)
(***************************************************************************)
NaT == <<"NaT">>

\* pd.read_csv(path, usecols=use_cols) on the rows of an existing file
read_csv(rows) ==
    [i \in DOMAIN rows |->
        [idx |-> i - 1, title |-> rows[i].title,
         publish_time |-> rows[i].publish_time,
         journal |-> rows[i].journal, authors |-> rows[i].authors]]

\* df.dropna(subset=['title', 'publish_time'])
DropNaCritical(t) ==
    SelectSeq(t, LAMBDA r : r.title # NaN /\ r.publish_time # NaN)

\* pd.to_datetime(cell, errors='coerce') on one non-missing cell
to_datetime(cell) == IF cell[1] = "date" THEN <<"ts", cell[2]>> ELSE NaT

\* df['publish_time'] = pd.to_datetime(...); df.dropna(subset=['publish_time'])
ConvertDates(t) ==
    SelectSeq([i \in DOMAIN t |->
                  [t[i] EXCEPT !.publish_time = to_datetime(@)]],
              LAMBDA r : r.publish_time # NaT)

\* .astype('int16')
Int16(n) == ((n + 32768) % 65536) - 32768

\* df['year'] = df['publish_time'].dt.year.astype('int16')
AddYear(t) ==
    [i \in DOMAIN t |->
        [idx |-> t[i].idx, title |-> t[i].title,
         publish_time |-> t[i].publish_time, journal |-> t[i].journal,
         authors |-> t[i].authors, year |-> Int16(t[i].publish_time[2])]]

EraFirst == 2019
EraLast  == 2023

\* the era filter with its upper bound forgotten
FilterEraFrom(t) == SelectSeq(t, LAMBDA r : r.year >= EraFirst)

\* df[(df['year'] >= 2019) & (df['year'] <= 2023)]
FilterEra(t) == SelectSeq(t, LAMBDA r : r.year >= EraFirst /\ r.year <= EraLast)

IsSpace(c) == c = " "

\* len(s.split()): the maximal runs of non-whitespace characters
SplitLen(s) ==
    Cardinality({i \in DOMAIN s :
                    ~IsSpace(s[i]) /\ (i = 1 \/ IsSpace(s[i - 1]))})

\* df['title_word_count'] = df['title'].str.split().str.len().astype('int16')
AddWordCount(t) ==
    [i \in DOMAIN t |->
        [idx |-> t[i].idx, title |-> t[i].title,
         publish_time |-> t[i].publish_time, journal |-> t[i].journal,
         authors |-> t[i].authors, year |-> t[i].year,
         title_word_count |-> Int16(SplitLen(t[i].title))]]

\* lines 31-46: the table before the optional sampling (astype('category')
\* changes the dtype of journal, not its values)
Clean(rows) == AddWordCount(FilterEra(AddYear(ConvertDates(DropNaCritical(read_csv(rows))))))

\* draws with replacement (replace=True)
DrawsWithReplacement(len, n) == [1..n -> 1..len]

\* the orders in which n positions out of 1..len can be drawn without
\* replacement
Draws(len, n) ==
    {p \in [1..n -> 1..len] : \A i, j \in 1..n : p[i] = p[j] => i = j}

\* df.sample(n, random_state=42): the generator is seeded, so the draw is a
\* fixed function of (len(df), n); which function is the generator's
\* business, so every draw without replacement is allowed
Sample(t, n) == {[i \in 1..n |-> t[p[i]]] : p \in Draws(Len(t), n)}

\* lines 48-52
SampleDown(t, cap) == IF Len(t) > cap THEN Sample(t, cap) ELSE {t}

\* the tables the body of load_data can return for the rows of the file read
LoadBody(rows, cap) == SampleDown(Clean(rows), cap)

(***************************************************************************)
(* The files, and load_data behind @st.cache_data.                         *)
(***************************************************************************)
MainFile   == "metadata.csv"
SampleFile == "metadata_sample.csv"

DefaultSampleSize == 50000   \* def load_data(sample_size=50000)

\* lines 24-29: the paths handed to pd.read_csv, in order
PathsTried(fs) ==
    IF fs[MainFile].exists THEN <<MainFile>> ELSE <<MainFile, SampleFile>>

\* read_csv raises FileNotFoundError and nothing catches it
LoadRaises(fs) == ~fs[MainFile].exists /\ ~fs[SampleFile].exists

\* the sample file preferred to the full file
FileReadSampleFirst(fs) == IF fs[SampleFile].exists THEN SampleFile ELSE MainFile

\* the file whose rows become df
FileRead(fs) == IF fs[MainFile].exists THEN MainFile ELSE SampleFile

\* one uncached call load_data(cap): what it tried, and either the raise or
\* a returned table
load_data(fs, cap) ==
    IF LoadRaises(fs)
    THEN {[raised |-> TRUE, tried |-> PathsTried(fs), ret |-> <<>>]}
    ELSE {[raised |-> FALSE, tried |-> PathsTried(fs), ret |-> t] :
            t \in LoadBody(fs[FileRead(fs)].rows, cap)}

\* the function without its decorator: no call is ever a hit
CacheNeverHits(c, cap) == FALSE

\* st.cache_data: an entry [key, value] per argument value seen
CacheHit(c, cap) == \E e \in c : e.key = cap

CacheValue(c, cap) == (CHOOSE e \in c : e.key = cap).value

\* a memo that stores the result but runs the body on every call
CallAlwaysRunsBody(c, fs, cap) ==
    {[arg |-> cap, hit |-> FALSE, raised |-> o.raised, tried |-> o.tried,
      ret |-> o.ret,
      cache |-> IF o.raised THEN c
                ELSE {e \in c : e.key # cap} \cup {[key |-> cap, value |-> o.ret]}] :
        o \in load_data(fs, cap)}

\* a call through the decorator: a hit returns the stored table and does not
\* run the body; a miss runs it and stores the result unless it raised
CachedCall(c, fs, cap) ==
    IF CacheHit(c, cap)
    THEN {[arg |-> cap, hit |-> TRUE, raised |-> FALSE, tried |-> <<>>,
           ret |-> CacheValue(c, cap), cache |-> c]}
    ELSE {[arg |-> cap, hit |-> FALSE, raised |-> o.raised, tried |-> o.tried,
           ret |-> o.ret,
           cache |-> IF o.raised THEN c
                     ELSE c \cup {[key |-> cap, value |-> o.ret]}] :
            o \in load_data(fs, cap)}

(***************************************************************************)
(* The script body after the load (lines 59-167).                          *)
(***************************************************************************)
Years(t) == {t[i].year : i \in DOMAIN t}

\* the range filter with an exclusive upper end
FilterYearsHalfOpen(t, lo, hi) == SelectSeq(t, LAMBDA r : r.year >= lo /\ r.year < hi)

\* df[(df['year'] >= year_range[0]) & (df['year'] <= year_range[1])]
FilterYears(t, lo, hi) == SelectSeq(t, LAMBDA r : r.year >= lo /\ r.year <= hi)

\* filtered_df['year'].value_counts().sort_index()
YearlyCounts(t) ==
    [y \in Years(t) |-> Cardinality({i \in DOMAIN t : t[i].year = y})]

\* yearly_counts.idxmax(): the first label, in index order, of the maximum
IdxMax(yc) ==
    Min({y \in DOMAIN yc : \A z \in DOMAIN yc : yc[z] <= yc[y]})

TitleColumn(t) == [i \in DOMAIN t |-> t[i].title]

SampleRows == 10   \* .sample(min(10, len(filtered_df)))

NotRendered == [status |-> "running", line |-> 0, dataset_size |-> 0 - 1,
                total_papers |-> 0 - 1, peak_year |-> 0 - 1,
                peak_publications |-> 0 - 1, common_words |-> <<>>,
                chart_words |-> <<>>, wordcloud |-> FALSE,
                sample_rows |-> 0 - 1, years_covered |-> 0 - 1]

\* line 57 raised: nothing is rendered
ViewLoadFailed ==
    [NotRendered EXCEPT !.status = "FileNotFoundError", !.line = 57]

\* int(df['year'].min()) at line 68 on an empty column: int(nan)
ViewEmptyData(t) ==
    [NotRendered EXCEPT !.status = "ValueError", !.line = 68,
                        !.dataset_size = Len(t)]

\* yearly_counts.idxmax() at line 92 on an empty Series
ViewEmptyFilter(t, f) ==
    [NotRendered EXCEPT !.status = "ValueError", !.line = 92,
                        !.dataset_size = Len(t), !.total_papers = Len(f)]

\* the script ran to its last line
ViewDone(t, f) ==
    LET yc == YearlyCounts(f)
        cw == CommonWords(get_word_frequency(TitleColumn(f)))
    IN  [status |-> "ok", line |-> 167, dataset_size |-> Len(t),
         total_papers |-> Len(f), peak_year |-> IdxMax(yc),
         peak_publications |-> yc[IdxMax(yc)],
         common_words |-> cw, chart_words |-> Keys(ChartItems(cw)),
         wordcloud |-> Len(cw) > 0,
         sample_rows |-> IF SampleRows < Len(f) THEN SampleRows ELSE Len(f),
         years_covered |-> Max(Years(f)) - Min(Years(f)) + 1]

\* the value st.sidebar.slider returns: the widget's state if the user has
\* set one, else the default (min, max)
SliderValue(t, widget) ==
    IF widget = <<>> THEN <<Min(Years(t)), Max(Years(t))>> ELSE widget

\* one execution of the script with the slider's widget state `widget`
Script(widget) ==
    \E o \in CachedCall(cache, files, DefaultSampleSize) :
        /\ cache' = o.cache
        /\ calls' = Append(calls, [arg |-> o.arg, hit |-> o.hit,
                                   raised |-> o.raised, tried |-> o.tried,
                                   ret |-> o.ret])
        /\ df' = o.ret
        /\ IF o.raised
           THEN /\ year_range' = <<>>
                /\ filtered_df' = <<>>
                /\ view' = ViewLoadFailed
           ELSE IF Len(o.ret) = 0
           THEN /\ year_range' = <<>>
                /\ filtered_df' = <<>>
                /\ view' = ViewEmptyData(o.ret)
           ELSE LET yr == SliderValue(o.ret, widget)
                    f  == FilterYears(o.ret, yr[1], yr[2])
                IN  /\ year_range' = yr
                    /\ filtered_df' = f
                    /\ view' = IF Len(f) = 0 THEN ViewEmptyFilter(o.ret, f)
                                ELSE ViewDone(o.ret, f)
        /\ UNCHANGED files

(***************************************************************************)
(* Inputs.                                                                 *)
(***************************************************************************)
\* SpecTok: a lower-case letter, an upper-case letter, a digit, the
\* underscore and a separator ("all" is a stop word)
Alphabet == {"a", "L", "1", "_", "-"}

Letters3 == <<"a", "b", "c">>

\* the 27 three-letter words over a, b, c, numbered 0..26
Word(i) == <<Letters3[((i \div 9) % 3) + 1], Letters3[((i \div 3) % 3) + 1],
             Letters3[(i % 3) + 1]>>

RECURSIVE Join(_)
Join(ws) ==
    IF Len(ws) = 0 THEN <<>>
    ELSE IF Len(ws) = 1 THEN ws[1]
    ELSE ws[1] \o <<" ">> \o Join(Tail(ws))

WordsFrom(a, b) == Join([k \in 1..(b - a + 1) |-> Word(a + k - 1)])

CatDogCat == <<"c","a","t"," ","d","o","g"," ","c","a","t">>
DogBird   == <<"d","o","g"," ","b","i","r","d">>
TheCovid  == <<"T","h","e"," ","C","O","V","I","D","-","1","9"," ",
               "c","o","v","i","d","1","9"," ","i","n"," ","c","a","t","s">>

\* SpecFreq: the titles a column is made of
TitlePool ==
    {CatDogCat, DogBird, TheCovid, NaN,
     WordsFrom(0, 6), WordsFrom(7, 13), WordsFrom(14, 20),
     Join(<<Word(19), Word(20), Word(20)>>)}

Row(t, p, j) == [title |-> t, publish_time |-> p, journal |-> j,
                 authors |-> <<"authors">>]

Journal1 == <<"J1">>
Journal2 == <<"J2">>

\* SpecLoad: three rows that survive cleaning, and one row per way of being
\* rejected
RowPool ==
    {Row(CatDogCat, <<"date", 2019>>, Journal1),
     Row(DogBird, <<"date", 2023>>, NaN),
     Row(TheCovid, <<"date", 2021>>, Journal2),
     Row(NaN, <<"date", 2020>>, Journal1),
     Row(DogBird, NaN, Journal1),
     Row(DogBird, <<"text">>, Journal1),
     Row(DogBird, <<"date", 2018>>, Journal1),
     Row(DogBird, <<"date", 2024>>, Journal1)}

\* Spec: the contents a file can have
FileA == <<Row(CatDogCat, <<"date", 2019>>, Journal1),
           Row(NaN, <<"date", 2020>>, Journal1),
           Row(DogBird, <<"date", 2021>>, NaN),
           Row(DogBird, <<"date", 2018>>, Journal1),
           Row(TheCovid, <<"date", 2023>>, Journal2)>>
FileB == <<Row(NaN, <<"date", 2020>>, Journal1),
           Row(DogBird, <<"text">>, Journal1),
           Row(DogBird, <<"date", 2024>>, Journal1)>>
FileC == <<Row(DogBird, <<"date", 2020>>, Journal2)>>

Absent == [exists |-> FALSE, rows |-> <<>>]
Present(rows) == [exists |-> TRUE, rows |-> rows]

FileStates == {Absent, Present(FileA), Present(FileB), Present(FileC)}

(***************************************************************************)
(* Initial values of the variables a specification does not use.           *)
(***************************************************************************)
TokIdle  == title = <<>> /\ words = <<>>
FreqIdle == /\ titles = <<>>
            /\ word_freq = <<>>
            /\ common_words = <<>>
            /\ chart_words = <<>>
LoadIdle == csv = <<>> /\ sample_size = 0 /\ loaded = <<>>
AppIdle  == /\ files = [n \in {MainFile, SampleFile} |-> Absent]
            /\ cache = {}
            /\ calls = <<>>
            /\ df = <<>>
            /\ year_range = <<>>
            /\ filtered_df = <<>>
            /\ view = NotRendered

(***************************************************************************)
(* SpecTok: a title is typed one character at a time and tokenized.        *)
(***************************************************************************)
TypeChar(c) ==
    /\ Len(title) < MaxLen
    /\ title' = Append(title, c)
    /\ words' = TitleWords(title')
    /\ UNCHANGED <<freqVars, loadVars, appVars>>

InitTok == TokIdle /\ FreqIdle /\ LoadIdle /\ AppIdle
NextTok == \E c \in Alphabet : TypeChar(c)
SpecTok == InitTok /\ [][NextTok]_vars

(***************************************************************************)
(* SpecFreq: a column of titles grows by one title and is analyzed         *)
(* (lines 119-127).                                                        *)
(***************************************************************************)
AddTitle(t) ==
    /\ Len(titles) < MaxTitles
    /\ titles' = Append(titles, t)
    /\ word_freq' = get_word_frequency(titles')
    /\ common_words' = CommonWords(word_freq')
    /\ chart_words' = Keys(ChartItems(common_words'))
    /\ UNCHANGED <<tokVars, loadVars, appVars>>

InitFreq == TokIdle /\ FreqIdle /\ LoadIdle /\ AppIdle
NextFreq == \E t \in TitlePool : AddTitle(t)
SpecFreq == InitFreq /\ [][NextFreq]_vars

(***************************************************************************)
(* SpecLoad: the file gets one more row and load_data(cap) runs on it.     *)
(***************************************************************************)
LoadRow(r, cap) ==
    /\ Len(csv) < MaxRows
    /\ csv' = Append(csv, r)
    /\ sample_size' = cap
    /\ loaded' \in LoadBody(csv', cap)
    /\ UNCHANGED <<tokVars, freqVars, appVars>>

InitLoad == TokIdle /\ FreqIdle /\ LoadIdle /\ AppIdle
NextLoad == \E r \in RowPool, cap \in 0..MaxCap : LoadRow(r, cap)
SpecLoad == InitLoad /\ [][NextLoad]_vars

(***************************************************************************)
(* Spec: a session.                                                        *)
(***************************************************************************)
\* the script runs with the widget state as it is (first load, or a rerun)
Run ==
    /\ Len(calls) < MaxCalls
    /\ Script(year_range)
    /\ UNCHANGED <<tokVars, freqVars, loadVars>>

\* the user moves the slider, which the last run rendered with the bounds
\* min(year)..max(year) of df; the script runs again
MoveSlider(lo, hi) ==
    /\ Len(calls) < MaxCalls
    /\ year_range # <<>>
    /\ lo \in Min(Years(df))..Max(Years(df))
    /\ hi \in lo..Max(Years(df))
    /\ <<lo, hi>> # year_range
    /\ Script(<<lo, hi>>)
    /\ UNCHANGED <<tokVars, freqVars, loadVars>>

\* the environment creates, replaces or removes a file
FileChange(n, st) ==
    /\ files[n] # st
    /\ files' = [files EXCEPT ![n] = st]
    /\ UNCHANGED <<cache, calls, df, year_range, filtered_df, view>>
    /\ UNCHANGED <<tokVars, freqVars, loadVars>>

Init ==
    /\ TokIdle /\ FreqIdle /\ LoadIdle
    /\ files \in [{MainFile, SampleFile} -> FileStates]
    /\ cache = {}
    /\ calls = <<>>
    /\ df = <<>>
    /\ year_range = <<>>
    /\ filtered_df = <<>>
    /\ view = NotRendered

Next ==
    \/ Run
    \/ \E lo, hi \in EraFirst..EraLast : MoveSlider(lo, hi)
    \/ \E n \in {MainFile, SampleFile}, st \in FileStates : FileChange(n, st)

Spec == Init /\ [][Next]_vars

(***************************************************************************)
(* Properties of the tokenizer (SpecTok).                                  *)
(***************************************************************************)
\* the runs <<i, j>> (j exclusive) of s that are maximal for Member and made
\* only of characters satisfying Wanted, at least MinWordLen long
MaximalRuns(s, Member(_), Wanted(_)) ==
    {r \in (1..Len(s)) \X (2..(Len(s) + 1)) :
        /\ r[2] - r[1] >= MinWordLen
        /\ \A k \in r[1]..(r[2] - 1) : Member(s[k]) /\ Wanted(s[k])
        /\ r[1] = 1 \/ ~Member(s[r[1] - 1])
        /\ r[2] = Len(s) + 1 \/ ~Member(s[r[2]])}

\* the runs of a set, as strings, from left to right
RECURSIVE RunStrings(_, _)
RunStrings(s, rs) ==
    IF rs = {} THEN <<>>
    ELSE LET r == CHOOSE x \in rs : \A y \in rs : x[1] <= y[1]
         IN  <<Slice(s, r[1], r[2])>> \o RunStrings(s, rs \ {r})

\* maximal runs of alphabetic characters, whatever surrounds them
LetterRuns(s) == RunStrings(s, MaximalRuns(s, IsAsciiLetter, IsAsciiLetter))

\* maximal runs of word characters that consist of letters only
LetterOnlyWords(s) == RunStrings(s, MaximalRuns(s, IsWordChar, IsAsciiLetter))

\* C2 as stated: the tokens of a title are the lowercased maximal runs of
\* alphabetic characters of length >= 3 (stop words aside); digits and
\* underscores only separate runs, so the letters of "aaa1" are a token.
C2_AsStated == words = SelectSeq(LetterRuns(Lower(title)), NotStopWord)

\* C2 amended: the tokens of a title are the lowercased maximal runs of word
\* characters (letters, digits, underscore) that consist of letters only and
\* are at least 3 long, stop words removed; a run of letters that touches a
\* digit or an underscore yields no token.
C2_Tokens == words = SelectSeq(LetterOnlyWords(Lower(title)), NotStopWord)

\* a title with upper-case letters whose only run of three or more letters,
\* not a stop word, touches a digit or an underscore: no token comes out
C2_Witness ==
    /\ \E i \in DOMAIN title : title[i] \in UpperLetters
    /\ \E i \in 1..(Len(title) - 1) :
          IsAsciiLetter(title[i]) /\ title[i + 1] \in Digits \cup {"_"}
    /\ SelectSeq(LetterRuns(Lower(title)), NotStopWord) # <<>>
    /\ words = <<>>

(***************************************************************************)
(* Properties of the word-frequency analysis (SpecFreq).                   *)
(***************************************************************************)
\* every token of the column, in scanning order
Scanned == AllWords(DropNaTitles(titles))

\* word -> number of occurrences in the scan sc
Occurrences(sc) ==
    [w \in Range(sc) |-> Cardinality({i \in DOMAIN sc : sc[i] = w})]

\* word -> position of its first occurrence in the scan sc
FirstSeen(sc) ==
    [w \in Range(sc) |-> Min({i \in DOMAIN sc : sc[i] = w})]

\* C3: the word-frequency result lists each word with its number of
\* occurrences, in descending order of count, and words of equal count in
\* the order in which they were first encountered scanning the titles.
C3_Order ==
    LET occ   == Occurrences(Scanned)
        first == FirstSeen(Scanned)
    IN  /\ \A i \in DOMAIN common_words :
              /\ common_words[i].word \in DOMAIN occ
              /\ common_words[i].count = occ[common_words[i].word]
        /\ \A i, j \in DOMAIN common_words :
              i < j =>
                \/ common_words[i].count > common_words[j].count
                \/ /\ common_words[i].count = common_words[j].count
                   /\ first[common_words[i].word] < first[common_words[j].word]
        /\ chart_words = Take(Keys(common_words), ChartWords)

\* titles 'cat dog cat', 'dog bird' give cat:2, dog:2, bird:1
C3_Witness ==
    /\ titles = <<CatDogCat, DogBird>>
    /\ common_words = <<[word |-> <<"c","a","t">>, count |-> 2],
                        [word |-> <<"d","o","g">>, count |-> 2],
                        [word |-> <<"b","i","r","d">>, count |-> 1]>>

Smaller(a, b) == IF a < b THEN a ELSE b

\* the entries `top` are `n` of the words counted by occ, or all of them if
\* there are fewer, each with its count, and no word left out has a larger
\* count than an entry
IsTopN(top, n, occ) ==
    LET kept == Range(Keys(top))
        low  == IF top = <<>> THEN 0
                ELSE Min({top[i].count : i \in DOMAIN top})
    IN  /\ Len(top) = Smaller(n, Cardinality(DOMAIN occ))
        /\ Cardinality(kept) = Len(top)
        /\ \A i \in DOMAIN top :
              top[i].word \in DOMAIN occ /\ top[i].count = occ[top[i].word]
        /\ top # <<>> => \A w \in (DOMAIN occ) \ kept : occ[w] <= low

\* C9: the top n entries of a frequency mapping with d distinct words are
\* min(n, d) entries, none with a smaller count than a word left out; the
\* chart shows min(15, d) words, none with a smaller count than a word it
\* leaves out.
C9_TopN ==
    LET occ == Occurrences(Scanned)
    IN  /\ \A n \in 0..(TopWords + MaxTopN) :
              IsTopN(most_common(word_freq, n), n, occ)
        /\ Len(chart_words) = Smaller(ChartWords, Cardinality(DOMAIN occ))
        /\ Cardinality(Range(chart_words)) = Len(chart_words)
        /\ \A i \in DOMAIN chart_words :
              /\ chart_words[i] \in DOMAIN occ
              /\ \A w \in (DOMAIN occ) \ Range(chart_words) :
                    occ[w] <= occ[chart_words[i]]

\* more than 15 distinct words, the most frequent of them met after the
\* fifteenth, and a word left out of the chart
C9_Witness ==
    LET occ   == Occurrences(Scanned)
        first == FirstSeen(Scanned)
    IN  /\ Cardinality(DOMAIN occ) > ChartWords
        /\ Len(chart_words) = ChartWords
        /\ \E w \in DOMAIN occ :
              /\ occ[w] > 1
              /\ Cardinality({v \in DOMAIN occ : first[v] < first[w]}) >= ChartWords
              /\ chart_words[1] = w

(***************************************************************************)
(* Properties of load_data (SpecLoad).                                     *)
(***************************************************************************)
\* C1: every row of the table load_data returns has a non-null title and a
\* year y with 2019 <= y <= 2023, sampled down or not.
C1_RetainedRows ==
    \A i \in DOMAIN loaded :
        /\ loaded[i].title # NaN
        /\ loaded[i].year >= 2019
        /\ loaded[i].year <= 2023
        /\ loaded[i].year = csv[loaded[i].idx + 1].publish_time[2]

\* the rows of csv, by label, that pass every cleaning predicate
Survivors ==
    {i \in DOMAIN csv :
        /\ csv[i].title # NaN
        /\ csv[i].publish_time # NaN
        /\ csv[i].publish_time[1] = "date"
        /\ csv[i].publish_time[2] \in 2019..2023}

\* a file with a rejected row among its rows, and a table that was sampled
\* down to fewer rows than survive
C1_Witness ==
    /\ Cardinality(Survivors) < Len(csv)
    /\ Cardinality(Survivors) > sample_size
    /\ Len(loaded) > 0

\* C8: with n rows surviving cleaning and the era filter, load_data(cap)
\* returns cap distinct rows of those n when n > cap, and the n rows
\* unchanged and in file order when n <= cap: min(n, cap) rows in all.
C8_SampleCap ==
    LET n == Cardinality(Survivors)
    IN  /\ Len(loaded) = Smaller(n, sample_size)
        /\ \A i \in DOMAIN loaded :
              /\ loaded[i].idx + 1 \in Survivors
              /\ loaded[i].title = csv[loaded[i].idx + 1].title
              /\ loaded[i].journal = csv[loaded[i].idx + 1].journal
        /\ \A i, j \in DOMAIN loaded :
              loaded[i].idx = loaded[j].idx => i = j
        /\ n <= sample_size =>
              \A i, j \in DOMAIN loaded : i < j => loaded[i].idx < loaded[j].idx

\* three surviving rows sampled down to two
C8_Witness ==
    /\ Cardinality(Survivors) = 3
    /\ sample_size = 2
    /\ Len(loaded) = 2
    /\ loaded[1].idx > loaded[2].idx

(***************************************************************************)
(* Properties of a session (Spec).                                         *)
(***************************************************************************)
LastCall == calls[Len(calls)]

\* the last execution got past line 74
FilterRan == calls # <<>> /\ view.line >= 92

\* C4 as stated: an execution whose loaded table, or whose filtered table,
\* is empty runs to the end without raising.
C4_EmptyStateRenders ==
    (/\ calls # <<>>
     /\ ~LastCall.raised
     /\ Len(df) = 0 \/ Len(filtered_df) = 0)
    => view.status = "ok"

\* C5: the filtered table holds exactly the loaded rows whose year is in
\* [lo, hi], both ends included, in their order; with lo and hi the minimum
\* and maximum year of the loaded table it is the whole loaded table.
C5_InclusiveFilter ==
    FilterRan =>
        LET lo == year_range[1]
            hi == year_range[2]
            inRange == {i \in DOMAIN df : lo <= df[i].year /\ df[i].year <= hi}
        IN  /\ Len(filtered_df) = Cardinality(inRange)
            /\ \A i \in inRange : \E j \in DOMAIN filtered_df : filtered_df[j] = df[i]
            /\ \A j \in DOMAIN filtered_df :
                  \E i \in inRange : filtered_df[j] = df[i]
            /\ \A j, k \in DOMAIN filtered_df :
                  j < k => filtered_df[j].idx < filtered_df[k].idx
            /\ (lo = Min(Years(df)) /\ hi = Max(Years(df))) => filtered_df = df

\* a range narrower than the data whose two ends are years of kept rows,
\* with a row left out
C5_Witness ==
    /\ FilterRan
    /\ year_range[1] < year_range[2]
    /\ year_range[2] < Max(Years(df))
    /\ {year_range[1], year_range[2]} \subseteq Years(filtered_df)
    /\ Len(filtered_df) < Len(df)

\* the rows of `rows` that pass every cleaning predicate, as <<title, year>>
CleanTitlesYears(rows) ==
    LET keep == {i \in DOMAIN rows :
                    /\ rows[i].title # NaN
                    /\ rows[i].publish_time # NaN
                    /\ rows[i].publish_time[1] = "date"
                    /\ rows[i].publish_time[2] \in 2019..2023}
    IN  {<<rows[i].title, rows[i].publish_time[2]>> : i \in keep}

\* C6: a call that runs the body tries metadata.csv, then metadata_sample.csv
\* only if the first does not exist; it raises only when neither exists, and
\* otherwise returns the cleaned rows of the first file that exists.
C6_CandidateOrder ==
    [][Len(calls') > Len(calls) /\ ~calls'[Len(calls')].hit =>
        LET c == calls'[Len(calls')]
            main   == files["metadata.csv"]
            sample == files["metadata_sample.csv"]
        IN  /\ c.raised <=> (~main.exists /\ ~sample.exists)
            /\ main.exists =>
                  /\ c.tried = <<"metadata.csv">>
                  /\ {<<c.ret[i].title, c.ret[i].year>> : i \in DOMAIN c.ret}
                        = CleanTitlesYears(main.rows)
            /\ ~main.exists => c.tried = <<"metadata.csv", "metadata_sample.csv">>
            /\ (~main.exists /\ sample.exists) =>
                  {<<c.ret[i].title, c.ret[i].year>> : i \in DOMAIN c.ret}
                        = CleanTitlesYears(sample.rows)
            /\ c.raised => view'.status = "FileNotFoundError"
    ]_vars

\* the first file does not exist, the second does and was read
C6_Witness ==
    /\ calls # <<>>
    /\ ~LastCall.raised
    /\ LastCall.tried = <<"metadata.csv", "metadata_sample.csv">>
    /\ Len(LastCall.ret) > 0
    /\ ~files["metadata.csv"].exists
    /\ files["metadata_sample.csv"].exists

\* C7 as stated: every call after the first that returns a table returns the
\* table of the first call, and reads no file.
C7_AsStated ==
    \A i \in 2..Len(calls) :
        (calls[i].arg = calls[1].arg /\ ~calls[i].raised) =>
            /\ ~calls[1].raised
            /\ calls[i].ret = calls[1].ret
            /\ calls[i].tried = <<>>

\* C7 amended: once a call has returned a table, every later call with the
\* same argument returns that table and reads no file (a call that raised
\* stores nothing, so the next call reads the source again).
C7_CachedAfterReturn ==
    \A i, j \in DOMAIN calls :
        (i < j /\ calls[i].arg = calls[j].arg /\ ~calls[i].raised) =>
            /\ ~calls[j].raised
            /\ calls[j].ret = calls[i].ret
            /\ calls[j].tried = <<>>

\* a table was returned, both files were then removed, and the next call
\* still returned it
C7_Witness ==
    /\ Len(calls) >= 2
    /\ ~calls[1].raised
    /\ Len(calls[1].ret) > 0
    /\ LoadRaises(files)
    /\ ~LastCall.raised
    /\ LastCall.ret = calls[1].ret

\* C10: once the table is loaded no execution changes it: the cache keeps
\* it, every execution gets it as df, whatever the range selected and
\* whatever happens to the files, and with the full range selected the
\* filtered table is the loaded table.
C10_LoadedTableUnchanged ==
    [][cache # {} =>
        /\ cache' = cache
        /\ Len(calls') > Len(calls) =>
              /\ df' = CacheValue(cache, DefaultSampleSize)
              /\ df # <<>> => df' = df
              /\ (/\ view'.line >= 92
                  /\ year_range' = <<Min(Years(df')), Max(Years(df'))>>)
                 => filtered_df' = df'
    ]_vars

\* a third execution, with a narrow range selected that keeps one row of a
\* three-row table
C10_Witness ==
    /\ Len(calls) >= 3
    /\ view.status = "ok"
    /\ Len(df) = 3
    /\ Len(filtered_df) = 1
    /\ df = calls[1].ret

====
